---- MODULE Spec2Model ----
(***************************************************************************)
(* Session core of the react-frontend: AuthProvider (token, user, refresh  *)
(* timer), the audit logger, the API client and the route guards, as one   *)
(* state machine of the browser's event loop.  One behaviour is one page   *)
(* lifetime.  Every action is one synchronous run of JavaScript between    *)
(* two awaits; React 18 (createRoot) batches the setToken/setUser calls of *)
(* one such run into one update, after which the guards render again.      *)
(*                                                                         *)
(* Spec follows AuthProvider with its calls in flight.  GuardSpec adds the *)
(* router to a session that silent refresh and logout drive.  ApiSpec      *)
(* follows one apiFetch call through its steps, AuditSpec the audit        *)
(* logger's queue through log calls and flushes, and PageSpec one mounted  *)
(* LoginPage through its submits, its timers and its login calls.          *)
(***************************************************************************)
EXTENDS Integers, Sequences, FiniteSets, TLC

\* ------------------------------------------------------------------ bounds
MaxCalls == 2         \* calls started in one behaviour (login, logout, refresh, apiFetch)
MaxTime == 2          \* clock steps (half seconds) one behaviour covers
MaxSlices == 3        \* half request timeouts of time one apiFetch call is followed for
MaxQueue == 4         \* queued audit events beyond which no guarded route is entered
MaxEvents == 3        \* audit events logged while the logger alone is followed
MaxSubmits == 6       \* login calls LoginPage starts in one behaviour
MaxCooldowns == 6     \* submit cooldowns of time LoginPage is followed for, lockouts apart

\* ------------------------------------------------------- program constants
REFRESH_BUFFER_SECONDS == 60
REQUEST_TIMEOUT_MS == 10000
MS_PER_SECOND == 1000

\* ------------------------------------------------------------------ values
NoToken == << >>      \* token === null
NoUser == [id |-> "", role |-> ""]     \* user === null
NoTimer == 0          \* refreshTimerRef.current === null
NoUserId == ""        \* currentUserId === null

\* The identities the server can put in a token.
Identities ==
  { [sub |-> "u1", role |-> "viewer"],
    [sub |-> "u2", role |-> "admin"],
    [sub |-> "u3", role |-> "reviewer"] }

\* Token lifetimes the server issues, in seconds: around the refresh buffer.
Lifetimes == {60, 61}

\* What JSON.parse makes of a decoded middle segment.
JsonObject(sub, role, exp) == [type |-> "object", sub |-> sub, role |-> role, exp |-> exp]
JsonNull == [type |-> "null", sub |-> "", role |-> "", exp |-> 0]
JsonUnparsable == [type |-> "unparsable", sub |-> "", role |-> "", exp |-> 0]

\* A token is its dot-separated segments; a segment is either valid base64url
\* (of some text) or not.
Segment(b64, json) == [b64 |-> b64, json |-> json]
Opaque == Segment(TRUE, JsonUnparsable)

GoodToken(idn, exp) == << Opaque, Segment(TRUE, JsonObject(idn.sub, idn.role, exp)), Opaque >>

GoodTokens(t) == { GoodToken(idn, t + l) : idn \in Identities, l \in Lifetimes }

MalformedTokens ==
  LET good == Segment(TRUE, JsonObject("u1", "viewer", 1000))
  IN { << Opaque, good >>,                              \* two segments
       << Opaque, good, Opaque, Opaque >>,              \* four segments
       << Opaque, Segment(FALSE, JsonUnparsable), Opaque >>,  \* atob throws
       << Opaque, Segment(TRUE, JsonUnparsable), Opaque >>,   \* JSON.parse throws
       << Opaque, Segment(TRUE, JsonNull), Opaque >> }        \* payload null

\* The access tokens a response body can carry at time t.
ServerTokens(t) == GoodTokens(t) \cup MalformedTokens

\* ------------------------------------------------------------ pure functions
\* What decodeJwtPayload returns for null, and JSON.parse for a falsy value.
NoPayload == JsonNull

DecodeWithoutSegmentCount(tok) ==
  IF Len(tok) < 2 THEN NoPayload
  ELSE IF ~tok[2].b64 THEN NoPayload
  ELSE IF tok[2].json.type = "unparsable" THEN NoPayload
  ELSE tok[2].json

\* decodeJwtPayload: null unless three segments whose middle one decodes
\* (atob) and parses (JSON.parse).
decodeJwtPayload(tok) ==
  IF Len(tok) # 3 THEN NoPayload
  ELSE IF ~tok[2].b64 THEN NoPayload
  ELSE IF tok[2].json.type = "unparsable" THEN NoPayload
  ELSE tok[2].json

jwtToAuthUser(payload) == [id |-> payload.sub, role |-> payload.role]

\* ------------------------------------------------------------------- state
VARIABLES
  token,            \* AuthProvider: useState token
  user,             \* AuthProvider: useState user
  refreshTimerRef,  \* AuthProvider: refreshTimerRef.current, a timer handle
  timers,           \* the browser's pending setTimeout timers
  now,              \* the clock, in steps of half a second
  currentUserId,    \* auditLogger: the subject of new events
  sessionId,        \* auditLogger: the session id of new events
  eventQueue,       \* auditLogger: the queued events
  calls,            \* the async calls in flight, each at one of its awaits
  started,          \* how many calls have been started
  mounted,          \* AuthProvider's mount effect has run
  location,         \* window.location.href, as far as the core sets it
  last,             \* history: the step just taken
  race,             \* history: logout against the calls around it
  api,              \* one apiFetch call, followed step by step
  screen,           \* what the router shows at location
  audit,            \* auditLogger: its configuration; history: events logged and sent
  page              \* LoginPage: its state, its timers and its login calls

vars == << token, user, refreshTimerRef, timers, now, currentUserId, sessionId,
           eventQueue, calls, started, mounted, location, last, race, api, screen,
           audit, page >>

\* What the session core's steps leave alone.
others == << api, audit, page >>

\* The session core's variables.
core == << token, user, refreshTimerRef, currentUserId, sessionId, eventQueue,
           calls, started, mounted, last, race, screen >>

\* Date.now(), in milliseconds.
DateNow == now * (MS_PER_SECOND \div 2)

\* isAuthenticated, as the context value computes it.
isAuthenticated == token # NoToken /\ user # NoUser

\* The part of the state applyToken and the clearing paths work on.
Session ==
  [ token |-> token, user |-> user, currentUserId |-> currentUserId,
    refreshTimerRef |-> refreshTimerRef, timers |-> timers ]

\* ------------------------------------------------------------------- roles
UserRoles == {"viewer", "reviewer", "admin"}

HasRoleExact(u, role) == u # NoUser /\ u.role = role

\* hasRole: nobody has a role without a user; every user is a viewer; a
\* reviewer or an admin is a reviewer; only an admin is an admin.
hasRole(u, role) ==
  IF u = NoUser THEN FALSE
  ELSE IF role = "viewer" THEN TRUE
  ELSE IF role = "reviewer" THEN u.role = "reviewer" \/ u.role = "admin"
  ELSE u.role = "admin"

\* ------------------------------------------------------------ route guards
NoRole == ""          \* requiredRole undefined

\* isAuthenticated of a session.
authenticated(s) == s.token # NoToken /\ s.user # NoUser

\* What a guard gives when it renders: a redirect or its children, and the
\* audit calls it makes (in render and in its effects), each << action, path >>.
Redirect(to, logged) == [kind |-> "redirect", to |-> to, logged |-> logged]
Children(logged) == [kind |-> "children", to |-> "", logged |-> logged]

\* ProtectedRoute
ProtectedRoute(s, requiredRole, pathname) ==
  IF ~authenticated(s) THEN Redirect("/login", << >>)
  ELSE IF requiredRole # NoRole /\ ~hasRole(s.user, requiredRole)
  THEN Redirect("/unauthorized", << << "unauthorized_access_attempt", pathname >> >>)
  ELSE Children(<< >>)

\* AdminDashboardPage's effect, run when it mounts.
AdminDashboardPage(s, pathname) ==
  IF ~hasRole(s.user, "admin") THEN << << "unauthorized_access_attempt", pathname >> >>
  ELSE << << "admin_page_access", pathname >> >>

AdminRouteChecksLoginOnly(s, pathname) ==
  IF ~authenticated(s) THEN Redirect("/login", << >>)
  ELSE Children(AdminDashboardPage(s, pathname) \o << << "admin_page_access", pathname >> >>)

\* AdminRoute, mounting: a non-admin is logged in render and again by the
\* first effect; for an admin the children mount (their effects run first)
\* and the second effect logs the page access.
AdminRoute(s, pathname) ==
  IF ~authenticated(s) THEN Redirect("/login", << >>)
  ELSE IF ~hasRole(s.user, "admin")
  THEN Redirect("/unauthorized", << << "unauthorized_access_attempt", pathname >>,
                                    << "unauthorized_access_attempt", pathname >> >>)
  ELSE Children(AdminDashboardPage(s, pathname) \o << << "admin_page_access", pathname >> >>)

\* App: the guard of a path, mounting.
Paths == {"/", "/login", "/unauthorized", "/reviews/new", "/admin"}
route(s, pathname) ==
  IF pathname = "/reviews/new" THEN ProtectedRoute(s, "reviewer", pathname)
  ELSE IF pathname = "/admin" THEN AdminRoute(s, pathname)
  ELSE Children(<< >>)

\* What is on screen: where the router is, what it shows there ("public",
\* "review", "admin", or "error" for the error boundary's fallback), and the
\* audit calls made on the way.
View(shown, at, logged) == [shown |-> shown, at |-> at, logged |-> logged]

\* A path is entered: its guard mounts; a redirect leads to a public page.
enter(s, pathname) ==
  LET g == route(s, pathname)
  IN IF g.kind = "redirect" THEN View("public", g.to, g.logged)
     ELSE View(CASE pathname = "/admin" -> "admin"
                 [] pathname = "/reviews/new" -> "review"
                 [] OTHER -> "public",
               pathname, g.logged)

\* The session has changed and the guard on screen renders again.  AdminRoute
\* with its children on screen has run both its effects; rendered again for
\* a session that is no admin's it returns before the second useEffect, and
\* React throws (fewer hooks than in the previous render): the error
\* boundary's fallback replaces the routes and nothing navigates.
rerender(s, shown, at) ==
  IF shown = "admin"
  THEN IF authenticated(s) /\ hasRole(s.user, "admin") THEN View("admin", at, << >>)
       ELSE View("error", at,
                 IF authenticated(s) THEN << << "unauthorized_access_attempt", at >> >>
                 ELSE << >>)
  ELSE IF shown = "review"
  THEN LET g == ProtectedRoute(s, "reviewer", at)
       IN IF g.kind = "redirect" THEN View("public", g.to, g.logged)
          ELSE View("review", at, g.logged)
  ELSE View(shown, at, << >>)

\* ----------------------------------------------------------- refresh timer
\* clearTimeout on a handle: the pending timer with that handle, if any, goes.
clearTimeout(ts, handle) == { tm \in ts : tm.id # handle }

\* setTimeout returns a handle no pending timer has; the handle the ref still
\* holds is not handed out again either.
freshHandle(s) ==
  CHOOSE h \in 1..(Cardinality(s.timers) + 2) :
    /\ h # s.refreshTimerRef
    /\ \A tm \in s.timers : tm.id # h

clearRefreshTimer(s) ==
  IF s.refreshTimerRef # NoTimer
  THEN [s EXCEPT !.timers = clearTimeout(s.timers, s.refreshTimerRef),
                 !.refreshTimerRef = NoTimer]
  ELSE s

\* Seconds from nowMs until the refresh of a token expiring at exp.
secondsUntilRefresh(exp, nowMs) ==
  exp - (nowMs \div MS_PER_SECOND) - REFRESH_BUFFER_SECONDS

\* The one-shot timer applyToken arms, when it arms one.
armTimer(s, secs, nowMs) ==
  LET h == freshHandle(s)
  IN [s EXCEPT !.refreshTimerRef = h,
               !.timers = @ \cup {[id |-> h, armedAt |-> nowMs, delay |-> secs * MS_PER_SECOND]}]

ApplyTokenKeepsUser(s, accessToken, nowMs) ==
  LET payload == decodeJwtPayload(accessToken)
      set == [s EXCEPT !.token = accessToken]
      secs == secondsUntilRefresh(payload.exp, nowMs)
      cleared == clearRefreshTimer(set)
  IN IF payload = NoPayload THEN s
     ELSE IF secs > 0 THEN armTimer(cleared, secs, nowMs) ELSE cleared

ApplyTokenNoClear(s, accessToken, nowMs) ==
  LET payload == decodeJwtPayload(accessToken)
      authUser == jwtToAuthUser(payload)
      set == [s EXCEPT !.token = accessToken, !.user = authUser,
                       !.currentUserId = authUser.id]
      secs == secondsUntilRefresh(payload.exp, nowMs)
  IN IF payload = NoPayload THEN s
     ELSE IF secs > 0 THEN armTimer(set, secs, nowMs) ELSE set

ApplyTokenArmsAtZero(s, accessToken, nowMs) ==
  LET payload == decodeJwtPayload(accessToken)
      authUser == jwtToAuthUser(payload)
      set == [s EXCEPT !.token = accessToken, !.user = authUser,
                       !.currentUserId = authUser.id]
      secs == secondsUntilRefresh(payload.exp, nowMs)
      cleared == clearRefreshTimer(set)
  IN IF payload = NoPayload THEN s
     ELSE IF secs >= 0 THEN armTimer(cleared, secs, nowMs) ELSE cleared

\* applyToken: a no-op on a token that does not decode; otherwise token, user
\* and audit subject are set, the old timer is cleared and a new one armed
\* when the refresh moment is still ahead.
applyToken(s, accessToken, nowMs) ==
  LET payload == decodeJwtPayload(accessToken)
      authUser == jwtToAuthUser(payload)
      set == [s EXCEPT !.token = accessToken, !.user = authUser,
                       !.currentUserId = authUser.id]
      secs == secondsUntilRefresh(payload.exp, nowMs)
      cleared == clearRefreshTimer(set)
  IN IF payload = NoPayload THEN s
     ELSE IF secs > 0 THEN armTimer(cleared, secs, nowMs) ELSE cleared

ClearSessionKeepsUser(s) ==
  clearRefreshTimer([s EXCEPT !.token = NoToken, !.currentUserId = NoUserId])

\* The clearing block of silentRefresh's failure paths.
clearSession(s) ==
  clearRefreshTimer([s EXCEPT !.token = NoToken, !.user = NoUser,
                              !.currentUserId = NoUserId])

\* ---------------------------------------------------------- correlation id
\* The correlation id: one crypto.randomUUID() when the module is loaded.
SESSION_CORRELATION_ID == "uuid-1"
getCorrelationId == SESSION_CORRELATION_ID

\* A request without an X-Correlation-ID header, and the values a caller of
\* apiFetch can give for one in options.headers.
NoCorrelation == ""
CallerCorrelations == {NoCorrelation, "caller-1"}

\* The X-Correlation-ID header of a request.  apiFetch sets the page's id and
\* spreads options.headers over it; AuthProvider's login, refresh and logout
\* requests are sent with Content-Type alone.
requestCorrelation(kind, optionsCorrelation) ==
  IF kind # "api" THEN NoCorrelation
  ELSE IF optionsCorrelation # NoCorrelation THEN optionsCorrelation
  ELSE getCorrelationId

\* ------------------------------------------------------------ audit logger
\* An email as typed: its lower-case, trimmed text, and whether the typed
\* form had upper-case letters or surrounding blanks.
Email(text, upper, padded) == [text |-> text, upper |-> upper, padded |-> padded]
NoEmail == Email("", FALSE, FALSE)
Emails == { Email("a@x.com", TRUE, TRUE) }

NoHash == [alg |-> "", input |-> NoEmail]

\* The email itself where its digest belongs.
HashEmailPlain(email) == [alg |-> "", input |-> email]

\* metadata without a termLength member
NoLength == -1

\* hashEmail: SHA-256 of the lower-cased, trimmed email.
hashEmail(email) ==
  [alg |-> "SHA-256", input |-> [email EXCEPT !.upper = FALSE, !.padded = FALSE]]

BuildEventAnonymous(action, target, emailHash, uid, sid) ==
  [ action |-> action, target |-> target, emailHash |-> emailHash,
    termLength |-> NoLength, userId |-> NoUserId, sessionId |-> sid,
    correlationId |-> getCorrelationId ]

\* buildEvent: the subject and session id are read when the event is built.
\* Of the metadata, emailHash and termLength are kept.
buildEvent(action, target, emailHash, uid, sid) ==
  [ action |-> action, target |-> target, emailHash |-> emailHash,
    termLength |-> NoLength, userId |-> uid, sessionId |-> sid,
    correlationId |-> getCorrelationId ]

\* The search terms SearchPage logs: validated, not blank.
SearchTerms == {"a@x.com", "dune"}

\* logSearch: the event's metadata is the term's length, nothing else.
logSearch(term, uid, sid) ==
  [buildEvent("search_performed", "", NoHash, uid, sid) EXCEPT !.termLength = Len(term)]

\* ------------------------------------------------------------- async calls
\* A call in flight: where it waits, the X-Correlation-ID header its request
\* was sent with, and (history) what it has done so far to the session's
\* authentication outcome.
Call(id, kind, pc, email, hang) ==
  [ id |-> id, kind |-> kind, pc |-> pc, email |-> email, hang |-> hang,
    correlation |-> requestCorrelation(kind, NoCorrelation), trans |-> "none" ]

InFlight(kinds) == { c \in calls : c.kind \in kinds }

\* The id of a new call: the least one no call in flight has.
freeId(cs) == CHOOSE i \in 1..(Cardinality(cs) + 1) : \A c \in cs : c.id # i

\* ---------------------------------------------------------- request headers
\* A header the request does not carry, and the Authorization header of a
\* bearer token.
NoHeader == [scheme |-> "", credentials |-> NoToken]
Bearer(tok) == [scheme |-> "Bearer", credentials |-> tok]

\* main.tsx: the module-level token getter.  setTokenGetter, which would
\* replace it, has no caller, so it stays the initial function.
tokenGetter(s) == NoToken

\* The getToken main.tsx configures the API client with.
getToken(s) == tokenGetter(s)

\* apiFetch: Authorization is set when getToken() is truthy.
authorizationHeader(s) ==
  LET tok == getToken(s)
  IN IF tok # NoToken THEN Bearer(tok) ELSE NoHeader

\* history: what a step did to the session's authentication outcome
Transition(s, t) ==
  LET a == s.token # NoToken /\ s.user # NoUser
      b == t.token # NoToken /\ t.user # NoUser
  IN IF ~a /\ b THEN "U2A"
     ELSE IF a /\ ~b THEN "A2U"
     ELSE IF a /\ b /\ s.token # t.token THEN "A2A"
     ELSE "none"

\* history: the step just taken.  op names it, result is how the call it
\* ended settled, trans and emitted are what that call did to the session
\* and which audit events it queued, applied is the kind of token the step
\* gave to applyToken, lag is how late the timer that fired was, rearmed is
\* whether applyToken replaced a pending timer.
\* authorization is the Authorization header of the request the step sent.
Step(op, result, trans, emitted) ==
  [ op |-> op, result |-> result, trans |-> trans, emitted |-> emitted,
    applied |-> "none", lag |-> 0, rearmed |-> FALSE, authorization |-> NoHeader ]
Quiet == Step("quiet", "", "none", << >>)

Applied(body) == IF decodeJwtPayload(body) = NoPayload THEN "malformed" ELSE "good"

SetSession(s) ==
  /\ token' = s.token
  /\ user' = s.user
  /\ currentUserId' = s.currentUserId
  /\ refreshTimerRef' = s.refreshTimerRef
  /\ timers' = s.timers

\* The audit events of a guard's calls.
Logged(logged, uid, sid) ==
  [i \in 1..Len(logged) |-> buildEvent(logged[i][1], logged[i][2], NoHash, uid, sid)]

\* React renders again for session s: the screen follows, and what the
\* guards log joins the queue (queue is the queue the step leaves).
Render(s, sid, queue) ==
  LET v == rerender(s, screen, location)
  IN /\ screen' = v.shown
     /\ location' = v.at
     /\ eventQueue' = queue \o Logged(v.logged, s.currentUserId, sid)

\* history: no logout to speak of yet
NoRace == [ overlap |-> FALSE, startedSince |-> TRUE, loginSince |-> TRUE, cleared |-> FALSE ]

\* ------------------------------------------------------ API client: inputs
\* A request method as the caller wrote it: its upper-case text, and whether
\* the caller wrote it in lower case.  NoMethod is options.method undefined.
Method(text, lower) == [text |-> text, lower |-> lower]
NoMethod == Method("", FALSE)
Methods ==
  { NoMethod, Method("GET", FALSE), Method("HEAD", FALSE), Method("POST", FALSE),
    Method("POST", TRUE), Method("PUT", FALSE), Method("PATCH", TRUE),
    Method("DELETE", FALSE) }

toUpperCase(m) == [m EXCEPT !.lower = FALSE]

MUTATING_METHODS ==
  { Method("POST", FALSE), Method("PUT", FALSE), Method("PATCH", FALSE),
    Method("DELETE", FALSE) }

\* A cookie of document.cookie: its name and its value; the value is the
\* sequence of the pieces its "=" signs separate ("YWJj==" is three pieces).
Cookie(name, pieces) == [name |-> name, pieces |-> pieces]
CookieJars ==
  { << >>,
    << Cookie("theme", << "dark" >>) >>,
    << Cookie("XSRF-TOKEN", << "csrf-1" >>) >>,
    << Cookie("theme", << "dark" >>), Cookie("XSRF-TOKEN", << "a%20b" >>) >>,
    << Cookie("XSRF-TOKEN", << "YWJj", "", "" >>) >>,
    << Cookie("XSRF-TOKEN", << "" >>) >>,
    << Cookie("XSRF-TOKEN", << "%" >>) >> }

\* decodeURIComponent: escapes are replaced, a lone "%" throws URIError.
decodeURIComponent(text) ==
  CASE text = "a%20b" -> [ok |-> TRUE, text |-> "a b"]
    [] text = "%" -> [ok |-> FALSE, text |-> ""]
    [] OTHER -> [ok |-> TRUE, text |-> text]

\* What getCsrfToken gives: null, a text, or a thrown URIError.
NoCsrf == [kind |-> "null", text |-> ""]

RECURSIVE find(_, _)
find(jar, name) ==
  IF jar = << >> THEN << >>
  ELSE IF Head(jar).name = name THEN << Head(jar) >>
  ELSE find(Tail(jar), name)

\* getCsrfToken: the first cookie named XSRF-TOKEN, its text between the
\* first "=" and the next one, URI-decoded.
getCsrfToken(jar) ==
  LET match == find(jar, "XSRF-TOKEN")
      decoded == decodeURIComponent(match[1].pieces[1])
  IN IF match = << >> THEN NoCsrf
     ELSE IF decoded.ok THEN [kind |-> "text", text |-> decoded.text]
     ELSE [kind |-> "URIError", text |-> ""]

\* A header value is the sequence of its "="-separated pieces; the
\* X-XSRF-TOKEN header apiFetch sets, if any.
NoValue == << >>
csrfHeader(method, csrf) ==
  IF method \in MUTATING_METHODS /\ csrf.kind = "text" /\ csrf.text # ""
  THEN << csrf.text >>
  ELSE NoValue

\* A response body: whether it is JSON, and its message member ("" when it
\* has none); stack is what else it tells.
Body(json, message, stack) == [json |-> json, message |-> message, stack |-> stack]
NoBody == Body(FALSE, "", "")
ResponseBodies ==
  { Body(TRUE, "Validation failed", ""),
    Body(TRUE, "", "Error: secret at ..."),
    Body(FALSE, "", "<html>") }

ApiStatuses == {200, 201, 204, 304, 400, 401, 403, 404, 500, 503}

\* response.ok
ok(status) == status >= 200 /\ status <= 299

\* How an apiFetch call stands: pending, resolved with a value, or rejected
\* with an error (its class, its status when it is an ApiError, its message).
Pending == [state |-> "pending", class |-> "", status |-> 0, value |-> ""]
Resolved(value) == [state |-> "resolved", class |-> "", status |-> 0, value |-> value]
Rejected(class, status, message) ==
  [state |-> "rejected", class |-> class, status |-> status, value |-> message]

\* apiFetch after the response has arrived: the handlers called, the
\* redirect, and how the call settles; "body" is response.json() awaited.
Branch(logout, redirect, toast, then) ==
  [logout |-> logout, redirect |-> redirect, toast |-> toast, then |-> then]

StatusBranchOnly500(status) ==
  IF status = 401
  THEN Branch(1, << "/login" >>, << >>,
              Rejected("Error", 0, "Session expired. Please log in again."))
  ELSE IF status = 403
  THEN Branch(0, << "/unauthorized" >>, << >>, Rejected("Error", 0, "Access denied."))
  ELSE IF status = 500
  THEN Branch(0, << >>, << "Something went wrong. Please try again later." >>,
              Rejected("Error", 0, "Server error."))
  ELSE IF ~ok(status) THEN Branch(0, << >>, << >>, Pending)
  ELSE IF status = 204 THEN Branch(0, << >>, << >>, Resolved("undefined"))
  ELSE Branch(0, << >>, << >>, Pending)

statusBranch(status) ==
  IF status = 401
  THEN Branch(1, << "/login" >>, << >>,
              Rejected("Error", 0, "Session expired. Please log in again."))
  ELSE IF status = 403
  THEN Branch(0, << "/unauthorized" >>, << >>, Rejected("Error", 0, "Access denied."))
  ELSE IF status >= 500
  THEN Branch(0, << >>, << "Something went wrong. Please try again later." >>,
              Rejected("Error", 0, "Server error."))
  ELSE IF ~ok(status) THEN Branch(0, << >>, << >>, Pending)
  ELSE IF status = 204 THEN Branch(0, << >>, << >>, Resolved("undefined"))
  ELSE Branch(0, << >>, << >>, Pending)

\* How the call settles once response.json() has: a non-OK status throws
\* ApiError with the body's message (a fixed one when the body has none or
\* is not JSON); an OK status gives what response.json() gives.
bodyBranch(status, body) ==
  IF ~ok(status)
  THEN Rejected("ApiError", status,
                IF body.json /\ body.message # "" THEN body.message ELSE "Request failed")
  ELSE IF body.json THEN Resolved(body)
  ELSE Rejected("SyntaxError", 0, "")

\* The call before apiFetch is called.
ApiIdle ==
  [ pc |-> "idle", method |-> NoMethod, cookies |-> << >>, xsrf |-> NoValue,
    timeoutId |-> NoTimer, status |-> 0, body |-> NoBody, stall |-> FALSE,
    logout |-> 0, toast |-> << >>, redirect |-> << >>, aborted |-> "",
    settled |-> Pending ]

\* --------------------------------------------------- audit logger: flushing
\* The logger's module state beside the queue: whether the module has been
\* loaded, whether VITE_AUDIT_ENDPOINT is set, whether navigator.sendBeacon
\* exists; history: every event logged, and every batch handed to a
\* transport, in order.
NotLoaded ==
  [ loaded |-> FALSE, endpoint |-> FALSE, beacon |-> FALSE,
    enqueued |-> << >>, batches |-> << >> ]

Batch(transport, events) == [transport |-> transport, events |-> events]

\* The logger's queue and the batches sent so far.
Pipe(queue, batches) == [queue |-> queue, batches |-> batches]

\* sendBatch: nothing is sent without an endpoint or without events.
sendBatch(batches, events, endpoint) ==
  IF ~endpoint \/ events = << >> THEN batches
  ELSE Append(batches, Batch("fetch", events))

\* flushQueue: the whole queue is taken out and given to sendBatch.
flushQueue(pipe, endpoint) ==
  IF pipe.queue = << >> THEN pipe
  ELSE Pipe(<< >>, sendBatch(pipe.batches, pipe.queue, endpoint))

\* sendBeaconFlush: with an endpoint, the whole queue is taken out and given
\* to sendBeacon, or to sendBatch where there is no sendBeacon.
sendBeaconFlush(pipe, endpoint, beacon) ==
  IF ~endpoint \/ pipe.queue = << >> THEN pipe
  ELSE IF beacon THEN Pipe(<< >>, Append(pipe.batches, Batch("beacon", pipe.queue)))
  ELSE Pipe(<< >>, sendBatch(pipe.batches, pipe.queue, endpoint))

\* history: the events handed to a transport so far, in order.
RECURSIVE handed(_)
handed(batches) ==
  IF batches = << >> THEN << >>
  ELSE Head(batches).events \o handed(Tail(batches))

\* --------------------------------------------------------------- LoginPage
LOCKOUT_ATTEMPTS == 5
LOCKOUT_WINDOW_MS == 60000
SUBMIT_COOLDOWN_MS == 2000

\* LoginPage as it mounts: its useState and useRef values, its pending
\* setTimeout timers (each with what it does and when it is due) and the
\* number of its login calls in flight; history: when login calls were
\* started, when they failed, and when the form was locked.
PageMounted ==
  [ shown |-> TRUE, errors |-> FALSE, serverError |-> "", isSubmitting |-> FALSE,
    isLocked |-> FALSE, failureTimestamps |-> << >>, timers |-> {}, logins |-> 0,
    startedAt |-> << >>, failedAt |-> << >>, lockedAt |-> << >> ]

\* The submit button's disabled attribute.
submitDisabled(p) == p.isSubmitting \/ p.isLocked

\* The failures still inside the lockout window at nowMs, and the new one.
trackFailure(stamps, nowMs) ==
  Append(SelectSeq(stamps, LAMBDA t : nowMs - t < LOCKOUT_WINDOW_MS), nowMs)

Init ==
  /\ token = NoToken
  /\ user = NoUser
  /\ refreshTimerRef = NoTimer
  /\ timers = {}
  /\ now = 0
  /\ currentUserId = NoUserId
  /\ sessionId = 1
  /\ eventQueue = << >>
  /\ calls = {}
  /\ started = 0
  /\ mounted = FALSE
  /\ location = "/"
  /\ last = Quiet
  /\ race = NoRace
  /\ api = ApiIdle
  /\ screen = "public"
  /\ audit = NotLoaded
  /\ page = PageMounted

\* ----------------------------------------------------------- silentRefresh
\* The mount effect: silentRefresh is started; under React.StrictMode (dev)
\* the effect runs, is cleaned up (clearRefreshTimer) and runs again.
Mount(strict) ==
  /\ ~mounted
  /\ started + (IF strict THEN 2 ELSE 1) <= MaxCalls
  /\ mounted' = TRUE
  /\ LET c1 == Call(freeId(calls), "refresh", "fetch", NoEmail, FALSE)
         c2 == Call(freeId(calls \cup {c1}), "refresh", "fetch", NoEmail, FALSE)
         s == IF strict THEN clearRefreshTimer(Session) ELSE Session
     IN /\ calls' = calls \cup (IF strict THEN {c1, c2} ELSE {c1})
        /\ started' = started + (IF strict THEN 2 ELSE 1)
        /\ SetSession(s)
  /\ last' = Quiet
  /\ race' = [race EXCEPT !.startedSince = TRUE]
  /\ UNCHANGED others
  /\ UNCHANGED << now, sessionId, eventQueue, location, screen >>

\* The armed timer is due and runs its callback: silentRefresh starts.
TimerFire(tm) ==
  /\ tm \in timers
  /\ DateNow - tm.armedAt >= tm.delay
  /\ started < MaxCalls
  /\ timers' = timers \ {tm}
  /\ calls' = calls \cup {Call(freeId(calls), "refresh", "fetch", NoEmail, FALSE)}
  /\ started' = started + 1
  /\ last' = [Step("timerFire", "", "none", << >>) EXCEPT !.lag = DateNow - tm.armedAt - tm.delay]
  /\ race' = [race EXCEPT !.startedSince = TRUE]
  /\ UNCHANGED others
  /\ UNCHANGED << token, user, refreshTimerRef, now, currentUserId, sessionId,
                  eventQueue, mounted, location, screen >>

\* How silentRefresh settles on its failure paths: both are caught.
refreshFailure(s) == "resolved"

\* The refresh request settles: OK goes on to read the body; a non-OK
\* response or a network error clears the session.
RefreshResponse(c, outcome) ==
  /\ c \in calls /\ c.kind = "refresh" /\ c.pc = "fetch"
  /\ IF outcome = "ok"
     THEN /\ calls' = (calls \ {c}) \cup {[c EXCEPT !.pc = "json"]}
          /\ last' = Quiet
          /\ UNCHANGED << token, user, refreshTimerRef, timers, currentUserId,
                          eventQueue, location, screen >>
     ELSE LET s == clearSession(Session)
          IN /\ SetSession(s)
             /\ Render(s, sessionId, eventQueue)
             /\ calls' = calls \ {c}
             /\ last' = Step("refreshFailed", refreshFailure(s), Transition(Session, s), << >>)
  /\ UNCHANGED others
  /\ UNCHANGED << now, sessionId, started, mounted, race >>

\* response.json() settles: a body that is not JSON is caught like a network
\* error; otherwise the token is applied and token_refresh is logged.
RefreshJson(c, parsed, body) ==
  /\ c \in calls /\ c.kind = "refresh" /\ c.pc = "json"
  /\ calls' = calls \ {c}
  /\ IF parsed
     THEN LET s == applyToken(Session, body, DateNow)
              ev == buildEvent("token_refresh", "", NoHash, s.currentUserId, sessionId)
          IN /\ SetSession(s)
             /\ Render(s, sessionId, Append(eventQueue, ev))
             /\ last' = [Step("refreshDone", "resolved", Transition(Session, s), << "token_refresh" >>)
                           EXCEPT !.applied = Applied(body),
                                  !.rearmed = timers # {} /\ s.timers # {}]
     ELSE LET s == clearSession(Session)
          IN /\ SetSession(s)
             /\ Render(s, sessionId, eventQueue)
             /\ last' = Step("refreshFailed", refreshFailure(s), Transition(Session, s), << >>)
  /\ UNCHANGED others
  /\ UNCHANGED << now, sessionId, started, mounted, race >>

\* ------------------------------------------------------------------- login
\* login(email, password): the request is sent.
LoginCall(email) ==
  /\ mounted
  /\ started < MaxCalls
  /\ calls' = calls \cup {Call(freeId(calls), "login", "fetch", email, FALSE)}
  /\ started' = started + 1
  /\ last' = Quiet
  /\ race' = [race EXCEPT !.startedSince = TRUE, !.loginSince = TRUE]
  /\ UNCHANGED others
  /\ UNCHANGED << token, user, refreshTimerRef, timers, now, currentUserId,
                  sessionId, eventQueue, mounted, location, screen >>

\* The login request settles.  A network error rejects login as it is.  A
\* non-OK response goes to logLoginFailed, which first hashes the email; an
\* OK response goes on to read the body.
LoginResponse(c, outcome) ==
  /\ c \in calls /\ c.kind = "login" /\ c.pc = "fetch"
  /\ CASE outcome = "neterr" ->
            /\ calls' = calls \ {c}
            /\ last' = Step("loginDone", "rejected: fetch error", c.trans, << >>)
       [] outcome = "nonok" ->
            /\ calls' = (calls \ {c}) \cup {[c EXCEPT !.pc = "hashFailed"]}
            /\ last' = Quiet
       [] OTHER ->
            /\ calls' = (calls \ {c}) \cup {[c EXCEPT !.pc = "json"]}
            /\ last' = Quiet
  /\ UNCHANGED others
  /\ UNCHANGED << token, user, refreshTimerRef, timers, now, currentUserId, sessionId,
                  eventQueue, started, mounted, location, screen, race >>

\* response.json() settles: the token is applied, then logLogin hashes the
\* email before it queues the event.  A body that is not JSON rejects login.
LoginJson(c, parsed, body) ==
  /\ c \in calls /\ c.kind = "login" /\ c.pc = "json"
  /\ IF parsed
     THEN LET s == applyToken(Session, body, DateNow)
              t == Transition(Session, s)
          IN /\ SetSession(s)
             /\ Render(s, sessionId, eventQueue)
             /\ calls' = (calls \ {c}) \cup {[c EXCEPT !.pc = "hashLogin", !.trans = t]}
             /\ last' = [Step("loginApplied", "", t, << >>)
                           EXCEPT !.applied = Applied(body),
                                  !.rearmed = timers # {} /\ s.timers # {}]
     ELSE /\ calls' = calls \ {c}
          /\ last' = Step("loginDone", "rejected: body error", c.trans, << >>)
          /\ UNCHANGED << token, user, refreshTimerRef, timers, currentUserId,
                          eventQueue, location, screen >>
  /\ UNCHANGED others
  /\ UNCHANGED << now, sessionId, started, mounted, race >>

\* crypto.subtle.digest settles.  When it resolves, logLogin / logLoginFailed
\* queue their event and login resolves, or rejects with the fixed message;
\* when it rejects, login rejects with the digest's error and queues nothing.
LoginHashed(c, digestOk) ==
  /\ c \in calls /\ c.kind = "login" /\ c.pc \in {"hashLogin", "hashFailed"}
  /\ calls' = calls \ {c}
  /\ IF digestOk
     THEN LET action == IF c.pc = "hashLogin" THEN "login" ELSE "login_failed"
              ev == buildEvent(action, "", hashEmail(c.email), currentUserId, sessionId)
          IN /\ eventQueue' = Append(eventQueue, ev)
             /\ last' = Step("loginDone",
                             IF c.pc = "hashLogin" THEN "resolved"
                             ELSE "rejected: Invalid email or password",
                             c.trans, << action >>)
     ELSE /\ eventQueue' = eventQueue
          /\ last' = Step("loginDone", "rejected: digest error", c.trans, << >>)
  /\ UNCHANGED others
  /\ UNCHANGED << token, user, refreshTimerRef, timers, now, currentUserId, sessionId,
                  started, mounted, location, screen, race >>

\* ------------------------------------------------------------------ logout
\* logout's synchronous start, after logLogout: the refresh timer is cleared.
logoutStart(s) == clearRefreshTimer(s)

\* logout's end: setToken(null), setUser(null), auditLogger.setUser(null).
logoutEnd(s) == [s EXCEPT !.token = NoToken, !.user = NoUser, !.currentUserId = NoUserId]

\* logout(): the logout event is queued, the timer cleared and the request
\* sent.  The endpoint may be one that never answers (hang).
LogoutCall(hang) ==
  /\ mounted
  /\ started < MaxCalls
  /\ LET s == logoutStart(Session)
         ev == buildEvent("logout", "", NoHash, currentUserId, sessionId)
     IN /\ eventQueue' = Append(eventQueue, ev)
        /\ SetSession(s)
  /\ calls' = calls \cup {Call(freeId(calls), "logout", "fetch", NoEmail, hang)}
  /\ last' = Step("logoutCall", "", "none", << "logout" >>)
  /\ started' = started + 1
  /\ race' = [ overlap |-> InFlight({"login", "refresh"}) # {},
               startedSince |-> FALSE, loginSince |-> FALSE, cleared |-> FALSE ]
  /\ UNCHANGED others
  /\ UNCHANGED << now, sessionId, mounted, location, screen >>

\* The logout request settles, whichever way: the session is cleared and the
\* audit session reset (a new session id, no subject).
LogoutSettle(c, outcome) ==
  /\ c \in calls /\ c.kind = "logout" /\ c.pc = "fetch" /\ ~c.hang
  /\ outcome \in {"ok", "nonok", "neterr"}
  /\ LET s == logoutEnd(Session)
     IN /\ SetSession(s)
        /\ Render(s, sessionId + 1, eventQueue)
        /\ last' = Step("logoutDone", "resolved", Transition(Session, s), << "logout" >>)
  /\ sessionId' = sessionId + 1
  /\ calls' = calls \ {c}
  /\ race' = [race EXCEPT !.cleared = (InFlight({"logout"}) = {c})]
  /\ UNCHANGED others
  /\ UNCHANGED << now, started, mounted >>

\* ---------------------------------------------------------------- apiFetch
\* The logout handler main.tsx gives the API client: an empty function.
onLogout(s) == s

\* apiFetch(path, options): the headers are built and the request is sent.
ApiFetchCall(optionsCorrelation) ==
  /\ mounted
  /\ started < MaxCalls
  /\ calls' = calls \cup
       {[Call(freeId(calls), "api", "fetch", NoEmail, FALSE)
           EXCEPT !.correlation = requestCorrelation("api", optionsCorrelation)]}
  /\ started' = started + 1
  /\ last' = [Step("apiCall", "", "none", << >>)
                EXCEPT !.authorization = authorizationHeader(Session)]
  /\ UNCHANGED others
  /\ UNCHANGED << token, user, refreshTimerRef, timers, now, currentUserId, sessionId,
                  eventQueue, mounted, location, screen, race >>

\* The response arrives: 401 calls the logout handler and redirects to
\* /login, 403 redirects to /unauthorized, the rest leave the page alone.
ApiFetchResponse(c, status) ==
  /\ c \in calls /\ c.kind = "api" /\ c.pc = "fetch"
  /\ LET b == statusBranch(status)
         s == IF b.logout > 0 THEN onLogout(Session) ELSE Session
     IN /\ SetSession(s)
        /\ last' = IF status = 401
                   THEN Step("api401", b.then.value, Transition(Session, s), << >>)
                   ELSE Quiet
        /\ IF b.redirect # << >>
           THEN /\ location' = b.redirect[1]
                /\ screen' = "public"
                /\ eventQueue' = eventQueue
           ELSE Render(s, sessionId, eventQueue)
  /\ calls' = calls \ {c}
  /\ UNCHANGED others
  /\ UNCHANGED << now, sessionId, started, mounted, race >>

\* ------------------------------------------------- apiFetch, step by step
\* apiFetch(path, options): the headers are built, the timeout is armed and
\* the request is sent.  A cookie that does not URI-decode throws before
\* anything is armed or sent.
RequestSent(method, jar) ==
  /\ api.pc = "idle"
  /\ LET m == toUpperCase(IF method = NoMethod THEN Method("GET", FALSE) ELSE method)
         csrf == IF m \in MUTATING_METHODS THEN getCsrfToken(jar) ELSE NoCsrf
         h == freshHandle(Session)
     IN IF csrf.kind = "URIError"
        THEN /\ api' = [api EXCEPT !.pc = "done", !.method = method, !.cookies = jar,
                                   !.settled = Rejected("URIError", 0, "")]
             /\ timers' = timers
        ELSE /\ api' = [api EXCEPT !.pc = "fetch", !.method = method, !.cookies = jar,
                                   !.xsrf = csrfHeader(m, csrf), !.timeoutId = h]
             /\ timers' = timers \cup
                  {[id |-> h, armedAt |-> DateNow, delay |-> REQUEST_TIMEOUT_MS]}
  /\ UNCHANGED << core, audit, page, now, location >>

\* fetch resolves with a response: the timeout is cleared (finally) and the
\* status decides.  The body may be one that never finishes arriving.
RequestAnswered(status, body, stall) ==
  /\ api.pc = "fetch"
  /\ LET b == statusBranch(status)
     IN /\ api' = [api EXCEPT !.pc = IF b.then = Pending THEN "body" ELSE "done",
                              !.status = status, !.body = body,
                              !.stall = stall /\ b.then = Pending,
                              !.logout = @ + b.logout,
                              !.redirect = @ \o b.redirect,
                              !.toast = @ \o b.toast,
                              !.settled = b.then]
        /\ location' = IF b.redirect # << >> THEN b.redirect[1] ELSE location
  /\ timers' = clearTimeout(timers, api.timeoutId)
  /\ UNCHANGED << core, audit, page, now >>

\* fetch rejects for a reason other than an abort: a network error.
RequestFails ==
  /\ api.pc = "fetch"
  /\ api' = [api EXCEPT !.pc = "done",
                        !.settled = Rejected("Error", 0, "Network error. Please check your connection.")]
  /\ timers' = clearTimeout(timers, api.timeoutId)
  /\ UNCHANGED << core, audit, page, now, location >>

\* The timeout is due and its callback runs controller.abort(): a fetch in
\* flight rejects with AbortError, which apiFetch reports as a timeout; a
\* body being read fails with AbortError.
RequestTimeout(tm) ==
  /\ tm \in timers /\ tm.id = api.timeoutId
  /\ DateNow - tm.armedAt >= tm.delay
  /\ timers' = timers \ {tm}
  /\ api' = IF api.pc = "fetch"
            THEN [api EXCEPT !.pc = "done", !.aborted = "fetch",
                             !.settled = Rejected("Error", 0, "Request timed out. Please try again.")]
            ELSE IF api.pc = "body"
            THEN [api EXCEPT !.pc = "done", !.aborted = "body",
                             !.settled = IF ok(api.status) THEN Rejected("AbortError", 0, "")
                                         ELSE bodyBranch(api.status, NoBody)]
            ELSE [api EXCEPT !.aborted = "done"]
  /\ UNCHANGED << core, audit, page, now, location >>

\* response.json() settles.
BodyRead ==
  /\ api.pc = "body" /\ ~api.stall
  /\ api' = [api EXCEPT !.pc = "done", !.settled = bodyBranch(api.status, api.body)]
  /\ UNCHANGED << core, audit, page, timers, now, location >>

\* Half the request timeout, in clock steps.
HalfTimeout == (REQUEST_TIMEOUT_MS \div 2) \div (MS_PER_SECOND \div 2)

\* Half the request timeout passes; a due timer runs before the clock moves
\* on.  The clock is followed up to its bound, and on while a timeout is armed.
Wait ==
  /\ now < MaxSlices * HalfTimeout \/ timers # {}
  /\ \A tm \in timers : DateNow - tm.armedAt < tm.delay
  /\ now' = now + HalfTimeout
  /\ UNCHANGED << core, audit, page, timers, location, api >>

\* -------------------------------------------------------------- navigation
\* The names of a guard's audit calls.
actionsOf(logged) == [i \in 1..Len(logged) |-> logged[i][1]]

\* The user goes to another path of the app: its route mounts.
NavigateTo(pathname) ==
  /\ mounted
  /\ screen # "error"
  /\ pathname # location
  /\ LET v == enter(Session, pathname)
     IN /\ Len(eventQueue) + Len(v.logged) <= MaxQueue
        /\ screen' = v.shown
        /\ location' = v.at
        /\ eventQueue' = eventQueue \o Logged(v.logged, currentUserId, sessionId)
        /\ last' = Step("navigate", pathname, "none", actionsOf(v.logged))
  /\ UNCHANGED others
  /\ UNCHANGED << token, user, refreshTimerRef, timers, now, currentUserId, sessionId,
                  calls, started, mounted, race >>

\* The app is loaded at a guarded path: the routes render for the initial
\* session, the guard's redirect takes effect, and AuthProvider's mount
\* effect starts silentRefresh (twice under React.StrictMode).
LoadAt(pathname, strict) ==
  /\ ~mounted
  /\ started + (IF strict THEN 2 ELSE 1) <= MaxCalls
  /\ mounted' = TRUE
  /\ LET v == enter(Session, pathname)
         c1 == Call(freeId(calls), "refresh", "fetch", NoEmail, FALSE)
         c2 == Call(freeId(calls \cup {c1}), "refresh", "fetch", NoEmail, FALSE)
         s == IF strict THEN clearRefreshTimer(Session) ELSE Session
     IN /\ screen' = v.shown
        /\ location' = v.at
        /\ eventQueue' = eventQueue \o Logged(v.logged, currentUserId, sessionId)
        /\ calls' = calls \cup (IF strict THEN {c1, c2} ELSE {c1})
        /\ started' = started + (IF strict THEN 2 ELSE 1)
        /\ SetSession(s)
  /\ last' = Step("load", pathname, "none", << >>)
  /\ race' = [race EXCEPT !.startedSince = TRUE]
  /\ UNCHANGED others
  /\ UNCHANGED << now, sessionId >>

\* "Try again" on the error boundary's fallback: the routes mount afresh.
TryAgain ==
  /\ screen = "error"
  /\ LET v == enter(Session, location)
     IN /\ Len(eventQueue) + Len(v.logged) <= MaxQueue
        /\ screen' = v.shown
        /\ location' = v.at
        /\ eventQueue' = eventQueue \o Logged(v.logged, currentUserId, sessionId)
        /\ last' = Step("navigate", location, "none", actionsOf(v.logged))
  /\ UNCHANGED others
  /\ UNCHANGED << token, user, refreshTimerRef, timers, now, currentUserId, sessionId,
                  calls, started, mounted, race >>

\* ------------------------------------------------------------------- clock
\* Half a second passes; a due timer runs before the clock moves on.
Tick ==
  /\ now < MaxTime
  /\ \A tm \in timers : DateNow - tm.armedAt < tm.delay
  /\ now' = now + 1
  /\ last' = Quiet
  /\ UNCHANGED others
  /\ UNCHANGED << token, user, refreshTimerRef, timers, currentUserId, sessionId,
                  eventQueue, calls, started, mounted, location, screen, race >>

\* -------------------------------------------------------------------- Next
Outcomes == {"ok", "nonok", "neterr"}

\* The bodies an OK response can carry now.
Bodies == ServerTokens(DateNow \div MS_PER_SECOND)

Mounts == \E strict \in BOOLEAN : Mount(strict)
TimerFires == \E tm \in timers : TimerFire(tm)
RefreshSettles == \E c \in calls, outcome \in Outcomes : RefreshResponse(c, outcome)
RefreshBodyFails == \E c \in calls : RefreshJson(c, FALSE, NoToken)
RefreshBodyArrives == \E c \in calls, body \in Bodies : RefreshJson(c, TRUE, body)
LoginCalled == \E email \in Emails : LoginCall(email)
LoginSettles == \E c \in calls, outcome \in Outcomes : LoginResponse(c, outcome)
LoginBodyFails == \E c \in calls : LoginJson(c, FALSE, NoToken)
LoginBodyArrives == \E c \in calls, body \in Bodies : LoginJson(c, TRUE, body)
LoginDigestSettles == \E c \in calls, digestOk \in BOOLEAN : LoginHashed(c, digestOk)
LogoutCalled == \E hang \in BOOLEAN : LogoutCall(hang)
LogoutSettles == \E c \in calls, outcome \in Outcomes : LogoutSettle(c, outcome)
ApiFetchCalled == \E optionsCorrelation \in CallerCorrelations : ApiFetchCall(optionsCorrelation)
ApiFetchSettles == \E c \in calls, status \in ApiStatuses : ApiFetchResponse(c, status)

Next ==
  \/ Mounts
  \/ TimerFires
  \/ RefreshSettles
  \/ RefreshBodyFails
  \/ RefreshBodyArrives
  \/ LoginCalled
  \/ LoginSettles
  \/ LoginBodyFails
  \/ LoginBodyArrives
  \/ LoginDigestSettles
  \/ LogoutCalled
  \/ LogoutSettles
  \/ ApiFetchCalled
  \/ ApiFetchSettles
  \/ Tick

Spec == Init /\ [][Next]_vars

\* The steps the event loop and the network take on their own (the user's
\* calls are the rest): a request that is answered settles, a continuation
\* whose await has settled runs, a due timer fires, the clock advances.  A
\* logout request sent to an endpoint that never answers does not settle.
Progress ==
  \/ TimerFires
  \/ RefreshSettles
  \/ RefreshBodyArrives
  \/ LoginSettles
  \/ LoginBodyArrives
  \/ LoginDigestSettles
  \/ LogoutSettles
  \/ ApiFetchSettles
  \/ Tick

FairSpec == Spec /\ WF_vars(Progress)

\* ------------------------------------------- the session behind the guards
\* The app's routes over a session that silent refresh sets up and logout,
\* a failed refresh or a later refresh change.  The pages call apiFetch
\* without an X-Correlation-ID of their own.
Navigates == \E pathname \in Paths : NavigateTo(pathname)

GuardNext ==
  \/ Mounts
  \/ TimerFires
  \/ RefreshSettles
  \/ RefreshBodyFails
  \/ RefreshBodyArrives
  \/ LogoutCalled
  \/ LogoutSettles
  \/ ApiFetchCall(NoCorrelation)
  \/ ApiFetchSettles
  \/ Tick
  \/ Navigates
  \/ TryAgain
  \/ \E pathname \in {"/admin", "/reviews/new"}, strict \in BOOLEAN : LoadAt(pathname, strict)

GuardSpec == Init /\ [][GuardNext]_vars

\* ---------------------------------------------------------- apiFetch alone
RequestsSent == \E method \in Methods, jar \in CookieJars : RequestSent(method, jar)
RequestsAnswered ==
  \E status \in ApiStatuses, body \in ResponseBodies, stall \in BOOLEAN :
    RequestAnswered(status, body, stall)
RequestTimeouts == \E tm \in timers : RequestTimeout(tm)

ApiNext ==
  \/ RequestsSent
  \/ RequestsAnswered
  \/ RequestFails
  \/ RequestTimeouts
  \/ BodyRead
  \/ Wait

ApiSpec == Init /\ [][ApiNext]_vars

\* What happens without the server or the caller: a due timeout fires, a
\* body that arrives is read, time passes.  The server need not answer.
ApiProgress == RequestTimeouts \/ BodyRead \/ Wait

ApiFairSpec == ApiSpec /\ WF_vars(ApiProgress)

\* ------------------------------------------------------- auditLogger alone
\* The module is loaded: the environment is read and the batch timer and the
\* page listeners are set up.
AuditLoad(endpoint, beacon) ==
  /\ ~audit.loaded
  /\ audit' = [audit EXCEPT !.loaded = TRUE, !.endpoint = endpoint, !.beacon = beacon]
  /\ UNCHANGED << core, timers, now, location, api, page >>

\* One of the logger's synchronous log calls: an event joins the queue.
AuditLog(action) ==
  /\ audit.loaded
  /\ Len(audit.enqueued) < MaxEvents
  /\ LET ev == buildEvent(action, "", NoHash, currentUserId, sessionId)
     IN /\ eventQueue' = Append(eventQueue, ev)
        /\ audit' = [audit EXCEPT !.enqueued = Append(@, ev)]
  /\ UNCHANGED << token, user, refreshTimerRef, currentUserId, sessionId, calls, started,
                  mounted, last, race, screen, timers, now, location, api, page >>

\* logLogin / logLoginFailed, once the digest has resolved: the event with
\* the email's digest joins the queue.
AuditLogLogin(email, failed) ==
  /\ audit.loaded
  /\ Len(audit.enqueued) < MaxEvents
  /\ LET ev == buildEvent(IF failed THEN "login_failed" ELSE "login", "",
                          hashEmail(email), currentUserId, sessionId)
     IN /\ eventQueue' = Append(eventQueue, ev)
        /\ audit' = [audit EXCEPT !.enqueued = Append(@, ev)]
  /\ UNCHANGED << token, user, refreshTimerRef, currentUserId, sessionId, calls, started,
                  mounted, last, race, screen, timers, now, location, api, page >>

\* logSearch(term), as SearchPage calls it once the results have arrived.
AuditLogSearch(term) ==
  /\ audit.loaded
  /\ Len(audit.enqueued) < MaxEvents
  /\ LET ev == logSearch(term, currentUserId, sessionId)
     IN /\ eventQueue' = Append(eventQueue, ev)
        /\ audit' = [audit EXCEPT !.enqueued = Append(@, ev)]
  /\ UNCHANGED << token, user, refreshTimerRef, currentUserId, sessionId, calls, started,
                  mounted, last, race, screen, timers, now, location, api, page >>

\* The batch timer's interval has passed, or auditLogger.flush() is called:
\* flushQueue runs.
AuditFlush ==
  /\ audit.loaded
  /\ LET pipe == flushQueue(Pipe(eventQueue, audit.batches), audit.endpoint)
     IN /\ eventQueue' = pipe.queue
        /\ audit' = [audit EXCEPT !.batches = pipe.batches]
  /\ UNCHANGED << token, user, refreshTimerRef, currentUserId, sessionId, calls, started,
                  mounted, last, race, screen, timers, now, location, api, page >>

\* The page is hidden or about to unload: sendBeaconFlush runs.
AuditPageHide ==
  /\ audit.loaded
  /\ LET pipe == sendBeaconFlush(Pipe(eventQueue, audit.batches), audit.endpoint, audit.beacon)
     IN /\ eventQueue' = pipe.queue
        /\ audit' = [audit EXCEPT !.batches = pipe.batches]
  /\ UNCHANGED << token, user, refreshTimerRef, currentUserId, sessionId, calls, started,
                  mounted, last, race, screen, timers, now, location, api, page >>

AuditActions == {"logout", "token_refresh", "admin_page_access"}

AuditLoads == \E endpoint \in BOOLEAN, beacon \in BOOLEAN : AuditLoad(endpoint, beacon)
AuditLogs == \E action \in AuditActions : AuditLog(action)

AuditNext ==
  \/ AuditLoads
  \/ AuditLogs
  \/ \E email \in Emails, failed \in BOOLEAN : AuditLogLogin(email, failed)
  \/ \E term \in SearchTerms : AuditLogSearch(term)
  \/ AuditFlush
  \/ AuditPageHide

AuditSpec == Init /\ [][AuditNext]_vars

\* --------------------------------------------------------- LoginPage alone
\* handleSubmit: the errors are cleared; nothing more happens while the form
\* is locked or submitting; input that does not validate sets the field
\* errors; otherwise isSubmitting is set, the cooldown timer armed and login
\* called.
LoginSubmit(valid) ==
  /\ page.shown
  /\ LET p == [page EXCEPT !.errors = FALSE, !.serverError = ""]
     IN IF p.isLocked \/ p.isSubmitting THEN page' = p
        ELSE IF ~valid THEN page' = [p EXCEPT !.errors = TRUE]
        ELSE /\ Len(page.startedAt) < MaxSubmits
             /\ page' = [p EXCEPT !.isSubmitting = TRUE,
                                  !.timers = @ \cup {[does |-> "cooldown",
                                                      due |-> DateNow + SUBMIT_COOLDOWN_MS]},
                                  !.logins = @ + 1,
                                  !.startedAt = Append(@, DateNow)]
  /\ UNCHANGED << core, audit, api, timers, now, location >>

\* A login call of the page settles.  Resolved: the failure history is
\* cleared and the page navigates away, which unmounts it.  Rejected: the
\* fixed error is shown and the failure recorded; with LOCKOUT_ATTEMPTS
\* failures in the window the form is locked and the unlock timer armed.
LoginSettled(resolved) ==
  /\ page.shown /\ page.logins > 0
  /\ IF resolved
     THEN page' = [page EXCEPT !.shown = FALSE, !.failureTimestamps = << >>,
                               !.logins = 0, !.timers = {}]
     ELSE LET stamps == trackFailure(page.failureTimestamps, DateNow)
              lock == Len(stamps) >= LOCKOUT_ATTEMPTS
          IN page' = [page EXCEPT !.serverError = "Invalid email or password",
                                  !.failureTimestamps = stamps,
                                  !.logins = @ - 1,
                                  !.isLocked = @ \/ lock,
                                  !.timers = IF lock
                                             THEN @ \cup {[does |-> "unlock",
                                                           due |-> DateNow + LOCKOUT_WINDOW_MS]}
                                             ELSE @,
                                  !.failedAt = Append(@, DateNow),
                                  !.lockedAt = IF lock THEN Append(@, DateNow) ELSE @]
  /\ UNCHANGED << core, audit, api, timers, now, location >>

\* A timer of the page is due and runs its callback: the cooldown's clears
\* isSubmitting; the unlock's clears isLocked and the failure history.
PageTimerFire(tm) ==
  /\ tm \in page.timers
  /\ DateNow >= tm.due
  /\ page' = IF tm.does = "cooldown"
             THEN [page EXCEPT !.timers = @ \ {tm}, !.isSubmitting = FALSE]
             ELSE [page EXCEPT !.timers = @ \ {tm}, !.isLocked = FALSE,
                               !.failureTimestamps = << >>]
  /\ UNCHANGED << core, audit, api, timers, now, location >>

\* One cooldown, in clock steps.
Cooldown == SUBMIT_COOLDOWN_MS \div (MS_PER_SECOND \div 2)

\* Time passes on the page, a due timer running before the clock moves on:
\* one cooldown, or, on a locked form with nothing else pending, the time
\* until the unlock timer is due (however late that is).
PageWait ==
  /\ page.shown
  /\ \A tm \in page.timers : DateNow < tm.due
  /\ LET idle == /\ page.isLocked /\ page.logins = 0 /\ page.timers # {}
                 /\ \A tm \in page.timers : tm.does = "unlock"
         due == CHOOSE d \in { tm.due : tm \in page.timers } :
                  \A tm \in page.timers : d <= tm.due
     IN IF idle THEN now' = due \div (MS_PER_SECOND \div 2)
        ELSE /\ now < MaxCooldowns * Cooldown
             /\ now' = now + Cooldown
  /\ UNCHANGED << core, audit, api, timers, location, page >>

PageNext ==
  \/ \E valid \in BOOLEAN : LoginSubmit(valid)
  \/ \E resolved \in BOOLEAN : LoginSettled(resolved)
  \/ \E tm \in page.timers : PageTimerFire(tm)
  \/ PageWait

PageSpec == Init /\ [][PageNext]_vars

\* ================================================================== claims
\* C1: in every reachable state the token is non-null iff the user is
\* non-null iff isAuthenticated, and the user held is the decoded payload of
\* the token held.
C1_TokenIffUser ==
  /\ (token # NoToken) <=> (user # NoUser)
  /\ (user # NoUser) <=> isAuthenticated
  /\ token # NoToken => user = jwtToAuthUser(decodeJwtPayload(token))

\* C1 witness: an authenticated session whose token a later call replaced.
C1_Witness == isAuthenticated /\ last.trans = "A2A"

\* C2: once logout() has been called the session eventually has token null
\* and user null, whatever the logout endpoint does, never answering
\* included.
C2_LogoutEventuallyClears ==
  [](last.op = "logoutCall" => <>(token = NoToken /\ user = NoUser))

\* C3: when logout() was called while a login or silent refresh was in
\* flight and no call was started since, then once all of them have
\* completed the session is unauthenticated.
C3_LogoutWins ==
  (race.overlap /\ ~race.startedSince /\ InFlight({"login", "refresh", "logout"}) = {})
    => (token = NoToken /\ user = NoUser)

\* C4: logout() leaves no timer pending when it sends its request; from that
\* call until the next login() call no refresh timer fires, and once the
\* logout has cleared the session no timer is armed.
C4_NoTimerAfterLogout ==
  /\ last.op = "logoutCall" => timers = {}
  /\ ~race.loginSince => last.op # "timerFire"
  /\ (~race.loginSince /\ race.cleared) => timers = {}

\* C5: at most one refresh timer is pending, and it is the one the ref holds:
\* every timer armed earlier is gone.
C5_AtMostOneTimer ==
  /\ Cardinality(timers) <= 1
  /\ \A tm \in timers : tm.id = refreshTimerRef

\* C5 witness: applyToken armed a timer while an earlier one was pending.
C5_Witness == last.rearmed /\ Cardinality(timers) = 1

\* The decodable tokens C6 ranges over: every identity, lifetimes on both
\* sides of the refresh buffer.
C6_Tokens == { GoodToken(idn, (DateNow \div 1000) + l) : idn \in Identities, l \in 58..63 }

\* C6: for every decodable token, applied in any reachable state, the
\* session becomes authenticated with it; exactly one timer is armed, with a
\* delay of exp - now - 60 seconds, iff that is positive, and otherwise none
\* is armed and the previous one is gone; a timer that fires does so exactly
\* when its delay has passed.
C6_TimerArmedIffPositive ==
  /\ \A tok \in C6_Tokens :
       LET exp == decodeJwtPayload(tok).exp
           secs == exp - (DateNow \div 1000) - 60
           s == applyToken(Session, tok, DateNow)
       IN /\ s.token = tok /\ s.user # NoUser
          /\ IF secs > 0
             THEN s.timers = {[id |-> s.refreshTimerRef, armedAt |-> DateNow, delay |-> secs * 1000]}
             ELSE s.timers = {} /\ s.refreshTimerRef = NoTimer
  /\ last.op = "timerFire" => last.lag = 0

\* C6 witness: a timer armed by applyToken has fired, on time.
C6_Witness == last.op = "timerFire" /\ last.lag = 0

\* C7: for every malformed token, applied in any reachable state, applyToken
\* leaves token, user, audit subject and refresh timer as they were.
C7_MalformedIsNoOp ==
  \A tok \in MalformedTokens : applyToken(Session, tok, DateNow) = Session

\* C7 witness: a malformed token was applied to an authenticated session
\* with its timer armed.
C7_Witness == last.applied = "malformed" /\ isAuthenticated /\ timers # {}

\* C8: a silentRefresh that gets a non-OK response or an error ends with
\* token, user and audit subject null, no timer armed, no retry started and
\* no exception.
C8_RefreshFailureClears ==
  [][last'.op = "refreshFailed" =>
       /\ token' = NoToken /\ user' = NoUser /\ currentUserId' = NoUserId
       /\ timers' = {} /\ refreshTimerRef' = NoTimer
       /\ started' = started /\ calls' \subseteq calls
       /\ last'.result = "resolved"]_vars

\* C8 witness: a refresh failed in an authenticated session.
C8_Witness == last.op = "refreshFailed" /\ last.trans = "A2U"

\* C9: a call that changed the authentication outcome, and a login the
\* server refused, has queued exactly one audit event, of its action.
C9_EveryTransitionAudited ==
  LET expected == CASE last.op = "loginDone" /\ last.result = "resolved" -> "login"
                    [] last.op = "loginDone" -> "login_failed"
                    [] last.op = "logoutDone" -> "logout"
                    [] OTHER -> "token_refresh"
  IN (/\ last.op \in {"loginDone", "refreshDone", "refreshFailed", "logoutDone"}
      /\ \/ last.trans # "none"
         \/ last.result = "rejected: Invalid email or password")
       => last.emitted = << expected >>

\* C10: after apiFetch has handled a 401 the session is torn down: token and
\* user null, no refresh timer pending.
C10_401TearsDown ==
  last.op = "api401" => (token = NoToken /\ user = NoUser /\ timers = {})

\* C11: the request apiFetch has just sent carries Authorization: Bearer
\* with the session's token when the session is authenticated, and no
\* Authorization header when it is not.
C11_BearerIffAuthenticated ==
  last.op = "apiCall" =>
    last.authorization = (IF isAuthenticated THEN Bearer(token) ELSE NoHeader)

\* C12: a login that has failed, whatever made it fail, has rejected with
\* the fixed error "Invalid email or password" and has not changed the
\* session's authentication outcome.
C12_LoginFailsAlike ==
  (last.op = "loginDone" /\ last.result # "resolved") =>
    (last.result = "rejected: Invalid email or password" /\ last.trans = "none")

\* C13: hasRole is false for every role when unauthenticated; in an
\* authenticated session viewer is held always, reviewer exactly by the
\* roles reviewer and admin, admin exactly by the role admin; so admin
\* implies reviewer implies viewer.
C13_RoleHierarchy ==
  /\ ~isAuthenticated => \A r \in UserRoles : ~hasRole(user, r)
  /\ isAuthenticated =>
       /\ hasRole(user, "viewer")
       /\ hasRole(user, "reviewer") <=> user.role \in {"reviewer", "admin"}
       /\ hasRole(user, "admin") <=> user.role = "admin"
  /\ hasRole(user, "admin") => hasRole(user, "reviewer")
  /\ hasRole(user, "reviewer") => hasRole(user, "viewer")

\* C13 witness: an authenticated admin, who is a reviewer too.
C13_Witness == isAuthenticated /\ user.role = "admin" /\ hasRole(user, "reviewer")

C15_CsrfHeader ==
  LET mutating == api.method.text \in {"POST", "PUT", "PATCH", "DELETE"}
      at == { i \in 1..Len(api.cookies) : api.cookies[i].name = "XSRF-TOKEN" }
      pieces == api.cookies[CHOOSE i \in at : TRUE].pieces
      value == [i \in 1..Len(pieces) |-> decodeURIComponent(pieces[i]).text]
      present == at # {} /\ pieces # << "" >>
  IN api.timeoutId # NoTimer =>
       api.xsrf = (IF mutating /\ present THEN value ELSE NoValue)

\* C16: every apiFetch call whose request has been sent eventually settles.
C16_EveryCallSettles == (api.pc = "fetch") ~> (api.pc = "done")

\* C17: for the session as it is and every required role, a guard gives
\* one of three outcomes: a redirect to /login and no unauthorized-access
\* event when unauthenticated; a redirect to /unauthorized and an
\* unauthorized_access_attempt event when authenticated without the role;
\* its children otherwise.  ProtectedRoute without a required role gives its
\* children to every authenticated session; AdminRoute is a guard requiring
\* admin.  A navigation to a guarded path ends where its guard says.
C17_GuardOutcome ==
  LET denied(g) == \E i \in 1..Len(g.logged) : g.logged[i][1] = "unauthorized_access_attempt"
      outcome(g, required) ==
        IF ~isAuthenticated
        THEN g.kind = "redirect" /\ g.to = "/login" /\ ~denied(g)
        ELSE IF required # NoRole /\ ~hasRole(user, required)
        THEN g.kind = "redirect" /\ g.to = "/unauthorized" /\ denied(g)
        ELSE g.kind = "children" /\ ~denied(g)
      required == IF last.result = "/admin" THEN "admin" ELSE "reviewer"
      allowed == isAuthenticated /\ hasRole(user, required)
  IN /\ \A role \in UserRoles \cup {NoRole}, pathname \in Paths :
          /\ outcome(ProtectedRoute(Session, role, pathname), role)
          /\ outcome(AdminRoute(Session, pathname), "admin")
     /\ (last.op = "navigate" /\ last.result \in {"/admin", "/reviews/new"}) =>
          /\ location = (IF ~isAuthenticated THEN "/login"
                         ELSE IF ~allowed THEN "/unauthorized"
                         ELSE last.result)
          /\ screen = (IF ~allowed THEN "public"
                       ELSE IF required = "admin" THEN "admin" ELSE "review")
          /\ ("unauthorized_access_attempt" \in { last.emitted[i] : i \in 1..Len(last.emitted) })
               <=> (isAuthenticated /\ ~allowed)

\* C17 witness: a reviewer has gone to /admin and been sent to /unauthorized.
C17_Witness ==
  /\ last.op = "navigate" /\ last.result = "/admin"
  /\ isAuthenticated /\ user.role = "reviewer"
  /\ location = "/unauthorized"

\* C18: admin content is on screen only while the session is authenticated
\* with role admin, and when a step leaves the session otherwise while admin
\* content is on screen, the step replaces the content by the guard's
\* redirect (to /login or /unauthorized).
C18_AdminContentGuarded ==
  [][LET admin == isAuthenticated' /\ user'.role = "admin"
     IN /\ screen' = "admin" => admin
        /\ (screen = "admin" /\ ~admin) =>
             (screen' = "public" /\ location' \in {"/login", "/unauthorized"})]_vars

\* C19: the events handed to the transports so far, batch after batch,
\* followed by the events still queued, are exactly the events logged, in
\* the order they were logged: no event is removed without being handed to
\* a transport, none is handed over twice, none out of order.
C19_HandedExactlyOnce ==
  audit.loaded => handed(audit.batches) \o eventQueue = audit.enqueued

\* C20: no failure of the audit pipeline reaches the caller of login,
\* logout or silentRefresh: a call that has settled has resolved, or has
\* rejected for a reason that is not the audit logger's.
C20_NoAuditErrorPropagates ==
  last.op \in {"loginDone", "logoutDone", "refreshDone", "refreshFailed"} =>
    last.result \in {"resolved", "rejected: Invalid email or password",
                     "rejected: fetch error", "rejected: body error"}


\* C21: every step leaves the events already queued as they are, and the
\* events it adds carry the logger's subject and session id as they are when
\* the event is queued; the logout event carries the id of the user logging
\* out and the session id that logout's end then replaces.
C21_StampedAtEnqueue ==
  [][/\ Len(eventQueue') >= Len(eventQueue)
     /\ SubSeq(eventQueue', 1, Len(eventQueue)) = eventQueue
     /\ \A i \in (Len(eventQueue) + 1)..Len(eventQueue') :
          /\ eventQueue'[i].userId = currentUserId'
          /\ eventQueue'[i].sessionId = sessionId'
     /\ last'.op = "logoutCall" =>
          LET ev == eventQueue'[Len(eventQueue')]
          IN /\ Len(eventQueue') = Len(eventQueue) + 1
             /\ ev.action = "logout"
             /\ ev.userId = user.id
             /\ ev.sessionId = sessionId
     /\ last'.op = "logoutDone" =>
          /\ sessionId' # sessionId
          /\ currentUserId' = NoUserId]_vars

\* C21 witness: a user's logout event is still queued after the logout has
\* cleared the subject and replaced the session id.
C21_Witness ==
  \E i \in 1..Len(eventQueue) :
    /\ eventQueue[i].action = "logout"
    /\ eventQueue[i].userId # NoUserId
    /\ currentUserId = NoUserId
    /\ eventQueue[i].sessionId # sessionId


\* The texts an event holds as they were given: its target, and its email
\* member where that is no digest.
C22_Texts(ev) ==
  {ev.target} \cup (IF ev.emailHash.alg = "SHA-256" THEN {} ELSE {ev.emailHash.input.text})

\* C22: no event logged, queued or handed over holds an email or a search
\* term as it was given: login and login_failed events hold the SHA-256
\* digest of the email and nothing else of it, search_performed events the
\* term's length and nothing else, and the other events neither.
C22_NoRawInput ==
  LET raw == SearchTerms \cup { e.text : e \in Emails }
      events == audit.enqueued \o eventQueue \o handed(audit.batches)
  IN \A i \in 1..Len(events) :
       LET ev == events[i]
       IN /\ C22_Texts(ev) \cap raw = {}
          /\ IF ev.action \in {"login", "login_failed"}
             THEN /\ ev.emailHash.alg = "SHA-256"
                  /\ ev.emailHash.input \in { [e EXCEPT !.upper = FALSE, !.padded = FALSE] : e \in Emails }
                  /\ ev.termLength = NoLength
             ELSE IF ev.action = "search_performed"
             THEN /\ ev.emailHash = NoHash
                  /\ ev.termLength \in { Len(t) : t \in SearchTerms }
             ELSE ev.emailHash = NoHash /\ ev.termLength = NoLength

\* C22 witness: a failed login and a search for an email address have been
\* logged, and the search event has been handed to a transport.
C22_Witness ==
  /\ \E i \in 1..Len(audit.enqueued) : audit.enqueued[i].action = "login_failed"
  /\ \E b \in 1..Len(audit.batches) : \E i \in 1..Len(audit.batches[b].events) :
       /\ audit.batches[b].events[i].action = "search_performed"
       /\ audit.batches[b].events[i].termLength = Len("a@x.com")


\* C23: every login that fails adds exactly one login_failed event to the
\* queue, with the digest every typed form of its email has (any letter
\* case, blanks around it or not), and leaves the session's authentication
\* as it was; so n failed logins in a row from an unauthenticated session
\* leave it unauthenticated with n login_failed events of one emailHash.
C23_FailedLoginsAudited ==
  [][(last'.op = "loginDone" /\ last'.result # "resolved") =>
       /\ Len(eventQueue') = Len(eventQueue) + 1
       /\ SubSeq(eventQueue', 1, Len(eventQueue)) = eventQueue
       /\ LET ev == eventQueue'[Len(eventQueue')]
          IN /\ ev.action = "login_failed"
             /\ \A e \in Emails, upper \in BOOLEAN, padded \in BOOLEAN :
                  ev.emailHash = hashEmail(Email(e.text, upper, padded))
       /\ isAuthenticated' = isAuthenticated]_vars


\* C24: every request in flight was sent with the X-Correlation-ID header
\* set to the page's one correlation id, whatever the caller of apiFetch
\* gave, and every queued audit event carries that id.
C24_CorrelationEverywhere ==
  /\ \A c \in calls : c.correlation = getCorrelationId
  /\ \A i \in 1..Len(eventQueue) : eventQueue[i].correlationId = getCorrelationId


\* C25: at most one silent-refresh request is in flight at any time.
C25_OneRefreshInFlight == Cardinality(InFlight({"refresh"})) <= 1


\* C26: while a login call the page has started is unsettled, the submit
\* button is disabled, and no second login call is in flight.
C26_DisabledWhileLoggingIn ==
  page.logins > 0 => (submitDisabled(page) /\ page.logins = 1)


\* C27: with LOCKOUT_ATTEMPTS failures recorded the form is locked; no login
\* call is started within LOCKOUT_WINDOW_MS after a lock, and the form stays
\* locked that long; no more than LOCKOUT_ATTEMPTS login calls fail within
\* any window of LOCKOUT_WINDOW_MS; and a login that succeeds leaves the
\* failure history empty.
C27_Lockout ==
  LET locks == { page.lockedAt[i] : i \in 1..Len(page.lockedAt) }
      starts == { page.startedAt[i] : i \in 1..Len(page.startedAt) }
      failures == 1..Len(page.failedAt)
  IN /\ (page.shown /\ ~page.isLocked) => Len(page.failureTimestamps) < LOCKOUT_ATTEMPTS
     /\ \A l \in locks, st \in starts : ~(l < st /\ st < l + LOCKOUT_WINDOW_MS)
     /\ \A l \in locks : (page.shown /\ DateNow < l + LOCKOUT_WINDOW_MS) => page.isLocked
     /\ \A i \in failures :
          Cardinality({ j \in failures :
                          /\ page.failedAt[i] <= page.failedAt[j]
                          /\ page.failedAt[j] < page.failedAt[i] + LOCKOUT_WINDOW_MS })
            <= LOCKOUT_ATTEMPTS
     /\ ~page.shown => page.failureTimestamps = << >>


\* C28: a login that has resolved has set the session (or the session is
\* authenticated as it was), and a login that has rejected has not changed
\* the session's authentication: no login resolves over an unauthenticated
\* session it did not set, and none rejects after creating a session.
C28_LoginOutcomeMatchesSession ==
  last.op = "loginDone" =>
    /\ last.result = "resolved" => (last.trans # "none" \/ isAuthenticated)
    /\ last.result # "resolved" => last.trans = "none"


\* C29: when the app has just been loaded at a guarded path, with the
\* mount-time silent refresh in flight, the guard has not redirected: the
\* router is still at that path, not at /login.
C29_NoRedirectWhileRefreshing ==
  (last.op = "load" /\ InFlight({"refresh"}) # {}) =>
    (location = last.result /\ location # "/login")


\* C30: a navigation to /admin has made the guard layer log exactly one
\* event: unauthorized_access_attempt for an authenticated non-admin,
\* admin_page_access for an admin, and none for an unauthenticated visitor.
C30_OneGuardEvent ==
  (last.op = "navigate" /\ last.result = "/admin") =>
    last.emitted = (IF ~isAuthenticated THEN << >>
                    ELSE IF ~hasRole(user, "admin") THEN << "unauthorized_access_attempt" >>
                    ELSE << "admin_page_access" >>)

====
